---------------------------- MODULE Spec2Model ----------------------------
(***************************************************************************)
(* RustFinger: a WebFinger server.  main.rs loads the configuration        *)
(* (urns.yml, config/*.yml), compiles it into a tenant map                 *)
(* (config.rs: process_tenants, normalize_subject, create_webfinger) and   *)
(* serves /.well-known/webfinger from that map (main.rs:                   *)
(* webfinger_handler).                                                     *)
(*                                                                         *)
(* Strings the code looks into (starts_with, slicing, split, the regex,    *)
(* Url::parse) are sequences of one-character strings.  Strings the code   *)
(* only compares or uses as map keys as a whole (tenant names, attribute   *)
(* keys, relation identifiers) are plain strings.  A HashMap is a function *)
(* on its key set; where the code iterates a HashMap, the iteration order  *)
(* is an arbitrary permutation of the keys.                                *)
(***************************************************************************)
EXTENDS Integers, Sequences, FiniteSets, TLC

VARIABLES
    pc,           \* main(): "start", "aliases", "tenants", "compiled", "serving", "aborted"
    urns_yml,     \* the file urns.yml as the process finds it
    config_dir,   \* the directory config/ as the process finds it
    urn_aliases,  \* Config::load: result of load_urn_aliases
    loaded,       \* Config::load: result of load_tenants (TenantsConfig)
    tenants,      \* Arc<TenantMap>: tenant name -> TenantData
    tenant_iter,  \* the iteration order of the TenantMap (tenants.values())
    requests,     \* the webfinger_handler calls in flight
    user_id,      \* normalize_subject: the argument
    subject,      \* normalize_subject: the result
    again,        \* normalize_subject applied to the result
    user_data,    \* create_webfinger: the attribute map
    data_iter,    \* create_webfinger: the iteration order of the attribute map
    aliases,      \* create_webfinger: the alias table
    finger        \* create_webfinger: the result

vars == <<pc, urns_yml, config_dir, urn_aliases, loaded, tenants, tenant_iter,
          requests, user_id, subject, again, user_data, data_iter, aliases, finger>>

serverVars == <<pc, urns_yml, config_dir, urn_aliases, loaded, tenants,
                tenant_iter, requests>>
normVars == <<user_id, subject, again>>
fingerVars == <<user_data, data_iter, aliases, finger>>

---------------------------------------------------------------------------
(* Characters and strings                                                  *)

Lower == {"a","b","c","d","e","f","g","h","i","j","k","l","m",
          "n","o","p","q","r","s","t","u","v","w","x","y","z"}
Upper == {"A","B","C","D","E","F","G","H","I","J","K","L","M",
          "N","O","P","Q","R","S","T","U","V","W","X","Y","Z"}
Alpha == Lower \cup Upper
Digit == {"0","1","2","3","4","5","6","7","8","9"}
AlNum == Alpha \cup Digit

\* "acct:", the prefix of config.rs:139 and main.rs:77
Acct == <<"a","c","c","t",":">>
\* the 5 of user_id[5..] and resource[5..]
AcctLen == 5

starts_with(s, p) == Len(s) >= Len(p) /\ SubSeq(s, 1, Len(p)) = p

\* s[n..]
Skip(s, n) == SubSeq(s, n + 1, Len(s))

\* the positions of character c in s
Positions(s, c) == {i \in 1..Len(s) : s[i] = c}

Min(S) == CHOOSE x \in S : \A y \in S : x <= y

\* str::split(c): the pieces of s between the occurrences of c, in order
RECURSIVE split(_, _)
split(s, c) ==
    IF Positions(s, c) = {} THEN <<s>>
    ELSE LET i == Min(Positions(s, c))
         IN  <<SubSeq(s, 1, i - 1)>> \o split(Skip(s, i), c)

\* Option<T>
None == [some |-> FALSE, val |-> <<>>]
Some(v) == [some |-> TRUE, val |-> v]

\* Iterator::nth(n), counted from 0
nth(it, n) == IF n + 1 <= Len(it) THEN Some(it[n + 1]) ELSE None

\* Result<T, E>
Ok(v) == [ok |-> TRUE, val |-> v]
Err(e) == [ok |-> FALSE, val |-> e]

\* the iteration orders of a set of keys: every sequence holding each key once
Orders(S) ==
    {q \in [1..Cardinality(S) -> S] : \A i, j \in 1..Cardinality(S) : q[i] = q[j] => i = j}

---------------------------------------------------------------------------
(* config.rs: subject normalization                                        *)

\* [a-zA-Z0-9._%+-]
EmailLocalClass == AlNum \cup {".", "_", "%", "+", "-"}
\* [a-zA-Z0-9.-]
EmailDomainClass == AlNum \cup {".", "-"}
\* the 2 of [a-zA-Z]{2,}
MinTld == 2

\* Regex ^[a-zA-Z0-9._%+-]+@[a-zA-Z0-9.-]+\.[a-zA-Z]{2,}$ : is_match
email_regex_is_match(s) ==
    \E at \in 1..Len(s) : \E dot \in 1..Len(s) :
        /\ s[at] = "@"
        /\ s[dot] = "."
        /\ at >= 2
        /\ \A k \in 1..(at - 1) : s[k] \in EmailLocalClass
        /\ dot >= at + 2
        /\ \A k \in (at + 1)..(dot - 1) : s[k] \in EmailDomainClass
        /\ Len(s) - dot >= MinTld
        /\ \A k \in (dot + 1)..Len(s) : s[k] \in Alpha

\* the schemes the url crate treats as special and that need a host
SpecialSchemes == { <<"h","t","t","p">>, <<"h","t","t","p","s">>,
                    <<"f","t","p">>, <<"w","s">>, <<"w","s","s">> }

HostClass == AlNum \cup {".", "-"}

RECURSIVE SkipSlashes(_)
SkipSlashes(s) ==
    IF Len(s) > 0 /\ s[1] \in {"/", "\\"} THEN SkipSlashes(Skip(s, 1)) ELSE s

\* the authority: up to the first of / \ ? # or the end
Authority(s) ==
    LET stops == {i \in 1..Len(s) : s[i] \in {"/", "\\", "?", "#"}}
    IN  IF stops = {} THEN s ELSE SubSeq(s, 1, Min(stops) - 1)

\* Url::parse(s).is_ok() (the url crate, without a base URL).  A scheme is a
\* letter followed by letters, digits, + - . up to the first ':'; a string
\* without one is a relative reference and fails.  After a special scheme the
\* slashes are skipped and a non-empty host must follow; after any other
\* scheme a remainder not starting with "//" is an opaque path and any text is
\* accepted.  Hosts are modelled for plain host names only (letters, digits,
\* dots, hyphens; no userinfo, port or IP literals): every URL the inputs
\* below can produce is of one of these shapes.
Url_parse_is_ok(s) ==
    LET colons == Positions(s, ":")
    IN  /\ colons # {}
        /\ LET c      == Min(colons)
               scheme == SubSeq(s, 1, c - 1)
               rest   == Skip(s, c)
               host   == Authority(SkipSlashes(rest))
           IN  /\ c >= 2
               /\ s[1] \in Alpha
               /\ \A k \in 2..(c - 1) : s[k] \in AlNum \cup {"+", "-", "."}
               /\ IF scheme \in SpecialSchemes
                  THEN Len(host) > 0 /\ \A k \in 1..Len(host) : host[k] \in HostClass
                  ELSE starts_with(rest, <<"/", "/">>)
                           => \A k \in 1..Len(host) : host[k] \in HostClass

\* fn normalize_subject(user_id) -> Result<String, _>
normalize_subject(uid) ==
    LET subj == IF starts_with(uid, Acct) THEN Skip(uid, AcctLen) ELSE uid
    IN  IF email_regex_is_match(subj) THEN Ok(Acct \o subj)
        ELSE IF Url_parse_is_ok(subj) THEN Ok(subj)
        ELSE Err(uid)

---------------------------------------------------------------------------
(* config.rs: attribute classification                                     *)

\* HashMap::new()
EmptyMap == << >>

\* HashMap::insert: a present key is overwritten
insert(m, k, v) == [x \in (DOMAIN m) \cup {k} |-> IF x = k THEN v ELSE m[x]]

\* HashMap::get
get(m, k) == IF k \in DOMAIN m THEN Some(m[k]) ELSE None

\* urn_aliases.get(&key).cloned().unwrap_or(key)
resolve_urn(table, key) == IF key \in DOMAIN table THEN table[key] ELSE key

\* Link { rel, href: Some(value) }
Link(rel, href) == [rel |-> rel, href |-> href]

\* push as it would be if links sharing a relation were merged
push_once(links, link) ==
    IF \E i \in 1..Len(links) : links[i].rel = link.rel THEN links ELSE Append(links, link)

\* links.push(link)
push(links, link) == Append(links, link)

\* the body of the loop of create_webfinger for one (key, value)
classify(wf, key, value, table) ==
    LET urn == resolve_urn(table, key)
    IN  IF Url_parse_is_ok(value)
        THEN [wf EXCEPT !.links = push(@, Link(urn, value))]
        ELSE [wf EXCEPT !.properties = insert(@, urn, value)]

\* the loop `for (key, value) in user_data`, taken in the order iter
RECURSIVE for_user_data(_, _, _, _)
for_user_data(wf, data, iter, table) ==
    IF iter = <<>> THEN wf
    ELSE for_user_data(classify(wf, Head(iter), data[Head(iter)], table),
                       data, Tail(iter), table)

\* fn create_webfinger(subject, user_data, urn_aliases) -> Result<WebFinger, _>,
\* which never fails; iter is the order in which the HashMap user_data yields
\* its entries
create_webfinger(subj, data, iter, table) ==
    for_user_data([subject |-> subj, links |-> <<>>, properties |-> EmptyMap],
                  data, iter, table)

---------------------------------------------------------------------------
(* config.rs: loading and compiling the configuration                      *)

\* async fn load_urn_aliases(): any failure to read urns.yml (Err(_)) gives
\* the empty table; a file that was read and does not parse is an error
load_urn_aliases(file) ==
    IF file.kind \in {"absent", "unreadable"} THEN Ok(EmptyMap)
    ELSE IF file.kind = "malformed" THEN Err("urns.yml")
    ELSE Ok(file.table)

\* HashMap::extend: the entries of b are inserted into a
extend(a, b) ==
    [n \in (DOMAIN a) \cup (DOMAIN b) |-> IF n \in DOMAIN b THEN b[n] ELSE a[n]]

\* the loop `while let Some(entry) = dir.next_entry().await?` over the entries
\* in the order iter; files other than .yml and .yaml are skipped
RECURSIVE for_entries(_, _, _)
for_entries(acc, entries, iter) ==
    IF iter = <<>> THEN Ok(acc)
    ELSE LET f == entries[Head(iter)]
         IN  IF f.ext \notin {"yml", "yaml"}
             THEN for_entries(acc, entries, Tail(iter))
             ELSE IF f.kind # "ok" THEN Err(Head(iter))
             ELSE for_entries(extend(acc, f.content), entries, Tail(iter))

\* async fn load_tenants(): a directory that cannot be opened (Err(_)) gives
\* no tenants; a directory whose listing fails is an error
load_tenants(dir, iter) ==
    IF dir.kind \in {"absent", "unreadable"} THEN Ok(EmptyMap)
    ELSE IF dir.kind = "eio" THEN Err("config")
    ELSE for_entries(EmptyMap, dir.entries, iter)

\* format!("acct:*@{}", domain)
wildcard(domain) == Acct \o <<"*", "@">> \o domain

\* the loop `for (user_id, user_data) in tenant_config.users`, the users taken
\* in the order uiter and the attributes of user u in the order diter[u]
RECURSIVE for_users(_, _, _, _, _)
for_users(fingers, users, uiter, diter, table) ==
    IF uiter = <<>> THEN Ok(fingers)
    ELSE LET u == Head(uiter)
             s == normalize_subject(u)
         IN  IF ~s.ok THEN s
             ELSE for_users(insert(fingers, s.val,
                                   create_webfinger(s.val, users[u], diter[u], table)),
                            users, Tail(uiter), diter, table)

\* [("openid".to_string(), openid)].into_iter().collect()
global_data(openid) == [k \in {"openid"} |-> openid]

\* the body of the loop of process_tenants for one tenant
compile_tenant(tc, uiter, diter, table) ==
    LET r == for_users(EmptyMap, tc.users, uiter, diter, table)
    IN  IF ~r.ok THEN r
        ELSE Ok([domain  |-> tc.domain,
                 global  |-> tc.global,
                 fingers |-> IF tc.global /\ tc.openid.some
                             THEN insert(r.val, wildcard(tc.domain),
                                         create_webfinger(wildcard(tc.domain),
                                                          global_data(tc.openid.val),
                                                          <<"openid">>, table))
                             ELSE r.val])

\* the loop `for (tenant_name, tenant_config) in tenants`, in the order
\* it.tenants
RECURSIVE for_tenants(_, _, _, _, _)
for_tenants(tenant_map, cfg, titer, it, table) ==
    IF titer = <<>> THEN Ok(tenant_map)
    ELSE LET n == Head(titer)
             r == compile_tenant(cfg[n], it.users[n], it.data[n], table)
         IN  IF ~r.ok THEN r
             ELSE for_tenants(insert(tenant_map, n, r.val), cfg, Tail(titer), it, table)

\* fn process_tenants(tenants, urn_aliases); `it` holds the orders in which the
\* HashMaps of the configuration yield their entries
process_tenants(cfg, table, it) == for_tenants(EmptyMap, cfg, it.tenants, it, table)

\* the iteration orders of one tenant's users map
UserIters(tc) == Orders(DOMAIN tc.users)

\* the iteration orders of the attribute maps of one tenant's users
DataIters(tc) ==
    {f \in [DOMAIN tc.users -> UNION {Orders(DOMAIN tc.users[u]) : u \in DOMAIN tc.users}] :
        \A u \in DOMAIN tc.users : f[u] \in Orders(DOMAIN tc.users[u])}

\* every way the HashMaps of a TenantsConfig can yield their entries
ProcessIters(cfg) ==
    {[tenants |-> t, users |-> u, data |-> d] :
        t \in Orders(DOMAIN cfg),
        u \in {f \in [DOMAIN cfg -> UNION {UserIters(cfg[n]) : n \in DOMAIN cfg}] :
                  \A n \in DOMAIN cfg : f[n] \in UserIters(cfg[n])},
        d \in {f \in [DOMAIN cfg -> UNION {DataIters(cfg[n]) : n \in DOMAIN cfg}] :
                  \A n \in DOMAIN cfg : f[n] \in DataIters(cfg[n])}}

---------------------------------------------------------------------------
(* main.rs: the request handler                                            *)

\* .unwrap_or("localhost")
Localhost == <<"l","o","c","a","l","h","o","s","t">>

\* headers.get("host")...unwrap_or("localhost"), then
\* host.split(':').next().unwrap_or(host)
domain_of(host) == Head(split(IF host.some THEN host.val ELSE Localhost, ":"))

\* tenants.values().find(|t| t.domain == domain): the name of the first tenant
\* of that domain in the map's iteration order, "" when there is none
RECURSIVE find_tenant(_, _, _)
find_tenant(ts, titer, domain) ==
    IF titer = <<>> THEN ""
    ELSE IF ts[Head(titer)].domain = domain THEN Head(titer)
    ELSE find_tenant(ts, Tail(titer), domain)

\* fn extract_domain_from_resource(resource) -> Option<&str>
extract_domain_from_resource(resource) ==
    IF starts_with(resource, Acct)
    THEN nth(split(Skip(resource, AcctLen), "@"), 1)
    ELSE None

\* Json<WebFinger> or StatusCode::NOT_FOUND
NoBody == [subject |-> <<>>, links |-> <<>>, properties |-> EmptyMap]
NoResponse == [status |-> "none", body |-> NoBody]
NotFound == [status |-> "not_found", body |-> NoBody]
Found(body) == [status |-> "ok", body |-> body]

\* exact_match as it would be if the exact lookup were left out
exact_match_never(tenant, resource) == FALSE

\* tenant.fingers.get(&resource)
exact_match(tenant, resource) == resource \in DOMAIN tenant.fingers

\* the conditions of lines 58-62: the tenant is global, the resource carries
\* the requesting domain, and the tenant holds a wildcard document
global_match(tenant, resource, domain) ==
    /\ tenant.global
    /\ LET resource_domain == extract_domain_from_resource(resource)
       IN  resource_domain.some /\ resource_domain.val = domain
    /\ wildcard(domain) \in DOMAIN tenant.fingers

\* personalize as it would be if the entry of the shared map were changed in
\* place instead of a clone
personalize_in_place(ts, name, key, resource) ==
    [index |-> [ts EXCEPT ![name].fingers[key].subject = resource],
     body  |-> [ts[name].fingers[key] EXCEPT !.subject = resource]]

\* personalize as it would be if the template were returned as it is
personalize_not(ts, name, key, resource) ==
    [index |-> ts, body |-> ts[name].fingers[key]]

\* let mut personalized = finger.clone(); personalized.subject = resource:
\* the clone is changed, the entry of the shared map is not
personalize(ts, name, key, resource) ==
    [index |-> ts, body |-> [ts[name].fingers[key] EXCEPT !.subject = resource]]

\* lines 52-73: the lookup in the tenant found; gives the response and the
\* tenant map as the handler leaves it
lookup(ts, name, resource, domain) ==
    IF exact_match(ts[name], resource)
    THEN [index |-> ts, response |-> Found(ts[name].fingers[resource])]
    ELSE IF global_match(ts[name], resource, domain)
    THEN LET p == personalize(ts, name, wildcard(domain), resource)
         IN  [index |-> p.index, response |-> Found(p.body)]
    ELSE [index |-> ts, response |-> NotFound]

\* async fn webfinger_handler, run alone from its first line to its last
webfinger_handler(ts, titer, resource, domain) ==
    LET name == find_tenant(ts, titer, domain)
    IN  IF name = "" THEN [index |-> ts, response |-> NotFound]
        ELSE lookup(ts, name, resource, domain)

---------------------------------------------------------------------------
(* The inputs: configuration files and requests                            *)

\* at most this many entries in config/
MaxFiles == 2
\* at most this many handler calls in flight
MaxInFlight == 2

DomD == <<"d",".","i","o">>
DomE == <<"e",".","i","o">>
At == <<"@">>

\* fallback identities: https://i.dp/o and the non-URL text "id"
OpenIdUrl == <<"h","t","t","p","s",":","/","/","i",".","d","p","/","o">>
OpenIdText == <<"i","d">>

\* user identifiers as authored
UserA == <<"a">> \o At \o DomD                      \* a@d.io
UserAcctA == Acct \o UserA                          \* acct:a@d.io
UserStar == Acct \o Acct \o <<"*">> \o At \o DomD   \* acct:acct:*@d.io
UserUrl == <<"h","t","t","p","s",":","/","/">> \o DomE \o <<"/","b">>  \* https://e.io/b
UserBad == <<"b","a","d">>                          \* bad

\* attribute maps
DataName1 == [k \in {"name"} |-> <<"A","l">>]
DataName2 == [k \in {"name"} |-> <<"Z","o">>]
DataAvatar == [k \in {"avatar"} |-> <<"h","t","t","p","s",":","/","/">> \o DomE \o <<"/","p">>]

TenantConfig(domain, users, global, openid) ==
    [domain |-> domain, users |-> users, global |-> global, openid |-> openid]

\* the tenant definitions the files hold
TenantGlobal == TenantConfig(DomD, UserA :> DataName1, TRUE, Some(OpenIdUrl))
TenantGlobalText == TenantConfig(DomD, EmptyMap, TRUE, Some(OpenIdText))
TenantGlobalNoId == TenantConfig(DomD, UserStar :> DataName2, TRUE, None)
TenantTwice == TenantConfig(DomD, (UserA :> DataName1) @@ (UserAcctA :> DataName2), FALSE, None)
TenantStar == TenantConfig(DomD, UserStar :> DataName2, FALSE, None)
TenantUrl == TenantConfig(DomE, UserUrl :> DataAvatar, FALSE, None)
TenantBad == TenantConfig(DomE, UserBad :> DataName1, FALSE, None)

YmlFile(ext, kind, content) == [ext |-> ext, kind |-> kind, content |-> content]

\* the files config/ may hold: file name -> file
FilePool ==
    ("a.yml" :> YmlFile("yml", "ok", "t1" :> TenantGlobal)) @@
    ("b.yml" :> YmlFile("yml", "ok", "t2" :> TenantTwice)) @@
    ("c.yaml" :> YmlFile("yaml", "ok", "t1" :> TenantStar)) @@
    ("d.yml" :> YmlFile("yml", "ok", "t2" :> TenantGlobalNoId)) @@
    ("e.yml" :> YmlFile("yml", "ok", "t2" :> TenantGlobalText)) @@
    ("f.yml" :> YmlFile("yml", "ok", "t3" :> TenantUrl)) @@
    ("g.yml" :> YmlFile("yml", "ok", "t3" :> TenantBad)) @@
    ("h.yml" :> YmlFile("yml", "malformed", EmptyMap)) @@
    ("i.yml" :> YmlFile("yml", "unreadable", EmptyMap)) @@
    ("j.txt" :> YmlFile("txt", "malformed", EmptyMap))

ConfigDir(kind, entries) == [kind |-> kind, entries |-> entries]

\* the states of config/ at startup
ConfigDirs ==
    {ConfigDir(k, EmptyMap) : k \in {"absent", "unreadable", "eio"}} \cup
    {ConfigDir("ok", [n \in S |-> FilePool[n]]) :
        S \in {T \in SUBSET DOMAIN FilePool : Cardinality(T) <= MaxFiles}}

UrnsFile(kind, table) == [kind |-> kind, table |-> table]

\* the states of urns.yml at startup
UrnsFiles ==
    {UrnsFile(k, EmptyMap) : k \in {"absent", "unreadable", "malformed"}} \cup
    {UrnsFile("ok", [k \in {"openid"} |-> "urn:openid"])}

\* the resources asked for
Resources ==
    { Acct \o UserA,                                  \* acct:a@d.io
      Acct \o <<"b">> \o At \o DomD,                  \* acct:b@d.io
      wildcard(DomD),                                 \* acct:*@d.io
      UserUrl,                                        \* https://e.io/b
      Acct \o <<"x">> \o At \o DomE,                  \* acct:x@e.io
      Acct \o <<"x">> \o At \o DomD \o At \o DomE,    \* acct:x@d.io@e.io
      Acct \o <<"x">> \o At \o DomE \o At \o DomD }   \* acct:x@e.io@d.io

\* the Host headers sent: none, and d.io:80
Hosts == {None, Some(DomD \o <<":","8","0">>)}

---------------------------------------------------------------------------
(* The server: main() and the handlers it spawns                           *)

\* values of the variables a specification does not use
Pending == [ok |-> FALSE, val |-> <<>>, pending |-> TRUE]
Idle == [pc |-> "idle", resource |-> <<>>, domain |-> <<>>, tenant |-> "",
         response |-> NoResponse]

NormIdle == user_id = <<>> /\ subject = Pending /\ again = Pending
FingerIdle ==
    user_data = EmptyMap /\ data_iter = <<>> /\ aliases = EmptyMap /\ finger = NoBody
ServerIdle ==
    /\ pc = "off"
    /\ urns_yml = UrnsFile("absent", EmptyMap)
    /\ config_dir = ConfigDir("absent", EmptyMap)
    /\ urn_aliases = EmptyMap
    /\ loaded = EmptyMap
    /\ tenants = EmptyMap
    /\ tenant_iter = <<>>
    /\ requests = [i \in 1..MaxInFlight |-> Idle]

Init ==
    /\ pc = "start"
    /\ urns_yml \in UrnsFiles
    /\ config_dir \in ConfigDirs
    /\ urn_aliases = EmptyMap
    /\ loaded = EmptyMap
    /\ tenants = EmptyMap
    /\ tenant_iter = <<>>
    /\ requests = [i \in 1..MaxInFlight |-> Idle]
    /\ NormIdle
    /\ FingerIdle

\* Config::load, line 50: load_urn_aliases().await?
LoadUrnAliases ==
    /\ pc = "start"
    /\ LET r == load_urn_aliases(urns_yml)
       IN  IF r.ok
           THEN pc' = "aliases" /\ urn_aliases' = r.val
           ELSE pc' = "aborted" /\ UNCHANGED urn_aliases
    /\ UNCHANGED <<urns_yml, config_dir, loaded, tenants, tenant_iter, requests>>
    /\ UNCHANGED <<normVars, fingerVars>>

\* Config::load, line 53: load_tenants().await?
LoadTenants ==
    /\ pc = "aliases"
    /\ \E iter \in Orders(DOMAIN config_dir.entries) :
          LET r == load_tenants(config_dir, iter)
          IN  IF r.ok
              THEN pc' = "tenants" /\ loaded' = r.val
              ELSE pc' = "aborted" /\ UNCHANGED loaded
    /\ UNCHANGED <<urns_yml, config_dir, urn_aliases, tenants, tenant_iter, requests>>
    /\ UNCHANGED <<normVars, fingerVars>>

\* Config::load, line 56: process_tenants(tenants, urn_aliases)?, and main,
\* line 136: the map built is the one the handlers share
ProcessTenants ==
    /\ pc = "tenants"
    /\ \E it \in ProcessIters(loaded) :
          LET r == process_tenants(loaded, urn_aliases, it)
          IN  IF r.ok
              THEN /\ pc' = "compiled"
                   /\ tenants' = r.val
                   /\ tenant_iter' \in Orders(DOMAIN r.val)
              ELSE pc' = "aborted" /\ UNCHANGED <<tenants, tenant_iter>>
    /\ UNCHANGED <<urns_yml, config_dir, urn_aliases, loaded, requests>>
    /\ UNCHANGED <<normVars, fingerVars>>

\* main, line 150: TcpListener::bind(&addr).await?
Bind ==
    /\ pc = "compiled"
    /\ pc' \in {"serving", "aborted"}
    /\ UNCHANGED <<urns_yml, config_dir, urn_aliases, loaded, tenants, tenant_iter, requests>>
    /\ UNCHANGED <<normVars, fingerVars>>

\* a request arrives: lines 31-42 of webfinger_handler
Receive(i) ==
    /\ pc = "serving"
    /\ requests[i].pc = "idle"
    /\ \E resource \in Resources, host \in Hosts :
          requests' = [requests EXCEPT ![i] =
              [Idle EXCEPT !.pc = "find", !.resource = resource, !.domain = domain_of(host)]]
    /\ UNCHANGED <<pc, urns_yml, config_dir, urn_aliases, loaded, tenants, tenant_iter>>
    /\ UNCHANGED <<normVars, fingerVars>>

\* lines 44-50: the tenant of the requesting domain
FindTenant(i) ==
    /\ requests[i].pc = "find"
    /\ LET name == find_tenant(tenants, tenant_iter, requests[i].domain)
       IN  requests' = [requests EXCEPT ![i] =
               IF name = ""
               THEN [@ EXCEPT !.pc = "done", !.response = NotFound]
               ELSE [@ EXCEPT !.pc = "lookup", !.tenant = name]]
    /\ UNCHANGED <<pc, urns_yml, config_dir, urn_aliases, loaded, tenants, tenant_iter>>
    /\ UNCHANGED <<normVars, fingerVars>>

\* lines 52-73: exact match, then the global match
Lookup(i) ==
    /\ requests[i].pc = "lookup"
    /\ LET r == lookup(tenants, requests[i].tenant, requests[i].resource, requests[i].domain)
       IN  /\ requests' = [requests EXCEPT ![i] = [@ EXCEPT !.pc = "done", !.response = r.response]]
           /\ tenants' = r.index
    /\ UNCHANGED <<pc, urns_yml, config_dir, urn_aliases, loaded, tenant_iter>>
    /\ UNCHANGED <<normVars, fingerVars>>

\* the response is sent and the call ends
Respond(i) ==
    /\ requests[i].pc = "done"
    /\ requests' = [requests EXCEPT ![i] = Idle]
    /\ UNCHANGED <<pc, urns_yml, config_dir, urn_aliases, loaded, tenants, tenant_iter>>
    /\ UNCHANGED <<normVars, fingerVars>>

Next ==
    \/ LoadUrnAliases
    \/ LoadTenants
    \/ ProcessTenants
    \/ Bind
    \/ \E i \in 1..MaxInFlight : Receive(i)
    \/ \E i \in 1..MaxInFlight : FindTenant(i)
    \/ \E i \in 1..MaxInFlight : Lookup(i)
    \/ \E i \in 1..MaxInFlight : Respond(i)

Spec == Init /\ [][Next]_vars

---------------------------------------------------------------------------
(* The server once it serves: the handlers alone, started from the states  *)
(* in which main() has bound the listener                                  *)

ListingOf(S) == ConfigDir("ok", [n \in S |-> FilePool[n]])
UrnsOpenId == UrnsFile("ok", [k \in {"openid"} |-> "urn:openid"])
UrnsAbsent == UrnsFile("absent", EmptyMap)

\* the file systems the serving states are taken from
ServeSetups ==
    { <<UrnsOpenId, ListingOf({"a.yml", "b.yml"})>>,
      <<UrnsAbsent, ListingOf({"a.yml"})>>,
      <<UrnsOpenId, ListingOf({"e.yml"})>>,
      <<UrnsAbsent, ListingOf({"e.yml"})>>,
      <<UrnsAbsent, ListingOf({"c.yaml", "f.yml"})>>,
      <<UrnsAbsent, ListingOf({"d.yml"})>> }

\* the states main() reaches at line 151 from one of these file systems
InitServe ==
    /\ pc = "serving"
    /\ \E setup \in ServeSetups : urns_yml = setup[1] /\ config_dir = setup[2]
    /\ urn_aliases = load_urn_aliases(urns_yml).val
    /\ \E iter \in Orders(DOMAIN config_dir.entries) :
          loaded = load_tenants(config_dir, iter).val
    /\ \E it \in ProcessIters(loaded) :
          tenants = process_tenants(loaded, urn_aliases, it).val
    /\ tenant_iter \in Orders(DOMAIN tenants)
    /\ requests = [i \in 1..MaxInFlight |-> Idle]
    /\ NormIdle
    /\ FingerIdle

NextServe ==
    \/ \E i \in 1..MaxInFlight : Receive(i)
    \/ \E i \in 1..MaxInFlight : FindTenant(i)
    \/ \E i \in 1..MaxInFlight : Lookup(i)
    \/ \E i \in 1..MaxInFlight : Respond(i)

SpecServe == InitServe /\ [][NextServe]_vars

---------------------------------------------------------------------------
(* normalize_subject alone, on every identifier of a bounded alphabet      *)

\* the longest identifier, without its acct: prefixes
MaxIdLen == 6
\* at most this many acct: prefixes in front
MaxPrefix == 2

NormAlphabet == {"a", "@", ".", ":"}

\* identifiers with characters the alphabet does not hold
NormExamples ==
    { <<"*">> \o At \o DomD, <<"*">>, UserUrl, UserBad, OpenIdUrl,
      <<"A","l">>, <<"a","-","b">> \o At \o DomD, <<"1",":","a">> }

RECURSIVE Prefixed(_, _)
Prefixed(s, n) == IF n = 0 THEN s ELSE Acct \o Prefixed(s, n - 1)

RawIds ==
    {Prefixed(s, n) :
        s \in (UNION {[1..k -> NormAlphabet] : k \in 0..MaxIdLen}) \cup NormExamples,
        n \in 0..MaxPrefix}

InitNormalize ==
    /\ user_id \in RawIds
    /\ subject = Pending
    /\ again = Pending
    /\ ServerIdle
    /\ FingerIdle

\* normalize_subject(&user_id)
Normalize ==
    /\ subject = Pending
    /\ subject' = normalize_subject(user_id)
    /\ UNCHANGED <<user_id, again, serverVars, fingerVars>>

\* normalize_subject applied to a subject it returned
NormalizeAgain ==
    /\ subject # Pending
    /\ subject.ok
    /\ again = Pending
    /\ again' = normalize_subject(subject.val)
    /\ UNCHANGED <<user_id, subject, serverVars, fingerVars>>

NextNormalize == Normalize \/ NormalizeAgain

SpecNormalize == InitNormalize /\ [][NextNormalize]_vars

---------------------------------------------------------------------------
(* create_webfinger alone, on every attribute map of a bounded size        *)

\* at most this many attributes in one map
MaxAttrs == 3

AttrKeys == {"name", "nick", "avatar", "photo"}
AttrValues ==
    { <<"A","l">>, <<"Z","o">>,
      <<"h","t","t","p","s",":","/","/">> \o DomD \o <<"/","p">>,
      <<"h","t","t","p","s",":","/","/">> \o DomE \o <<"/","q">> }

AliasTables ==
    { EmptyMap,
      "nick" :> "name",
      ("avatar" :> "rel:avatar") @@ ("photo" :> "rel:avatar"),
      ("nick" :> "name") @@ ("avatar" :> "rel:avatar") @@ ("photo" :> "rel:avatar") }

FingerSubject == Acct \o UserA

InitFinger ==
    /\ \E K \in SUBSET AttrKeys :
          Cardinality(K) <= MaxAttrs /\ user_data \in [K -> AttrValues]
    /\ data_iter = <<>>
    /\ aliases \in AliasTables
    /\ finger = NoBody
    /\ ServerIdle
    /\ NormIdle

\* create_webfinger(subject, user_data, &urn_aliases), the map taken in one of
\* its iteration orders
CreateWebfinger ==
    /\ finger = NoBody
    /\ \E iter \in Orders(DOMAIN user_data) :
          /\ data_iter' = iter
          /\ finger' = create_webfinger(FingerSubject, user_data, iter, aliases)
    /\ UNCHANGED <<user_data, aliases, serverVars, normVars>>

NextFinger == CreateWebfinger

SpecFinger == InitFinger /\ [][NextFinger]_vars

---------------------------------------------------------------------------
(* Properties of the request handler (SpecServe)                           *)

\* the handler calls that have their response
Done == {i \in 1..MaxInFlight : requests[i].pc = "done"}

\* the tenant the handler selects for call i ("" when there is none)
Selected(i) == find_tenant(tenants, tenant_iter, requests[i].domain)

\* the relation an attribute key stands for under the loaded alias table
RelOf(key) == IF key \in DOMAIN urn_aliases THEN urn_aliases[key] ELSE key

\* resource = acct:<local>@domain for some text <local>
IsAcctAt(resource, domain) ==
    /\ starts_with(resource, Acct)
    /\ Len(resource) >= AcctLen + 1 + Len(domain)
    /\ SubSeq(resource, Len(resource) - Len(domain), Len(resource)) = At \o domain

\* call i asks a global tenant with a fallback identity for an account of the
\* tenant's domain that the tenant does not define
AsksFallback(i) ==
    /\ Selected(i) # ""
    /\ tenants[Selected(i)].global
    /\ loaded[Selected(i)].openid.some
    /\ IsAcctAt(requests[i].resource, requests[i].domain)
    /\ requests[i].resource \notin DOMAIN tenants[Selected(i)].fingers

\* C1 as stated: for a global tenant with domain D and a fallback identity F
\* that is a URL, resolving an undefined acct:<local>@D against D succeeds
\* with subject = the resource and the property openid -> F.
C1_OpenIdProperty ==
    \A i \in Done :
        (AsksFallback(i) /\ Url_parse_is_ok(loaded[Selected(i)].openid.val)) =>
            /\ requests[i].response.status = "ok"
            /\ requests[i].response.body.subject = requests[i].resource
            /\ "openid" \in DOMAIN requests[i].response.body.properties
            /\ requests[i].response.body.properties["openid"]
                   = loaded[Selected(i)].openid.val

\* C1 amended: when the tenant selected for requesting domain D is global with
\* fallback identity F, resolving an undefined acct:<local>@D, with no '@' in
\* <local> or D, succeeds with subject = the resource and carries F under the
\* relation the alias table gives "openid": as the single link {rel, href: F}
\* and no property when F parses as a URL, as the single property rel -> F and
\* no link otherwise.
C1_FallbackIdentity ==
    \A i \in Done :
        (AsksFallback(i) /\ Cardinality(Positions(requests[i].resource, "@")) = 1) =>
            LET F    == loaded[Selected(i)].openid.val
                body == requests[i].response.body
            IN  /\ requests[i].response.status = "ok"
                /\ body.subject = requests[i].resource
                /\ IF Url_parse_is_ok(F)
                   THEN body.links = <<Link(RelOf("openid"), F)>>
                        /\ body.properties = EmptyMap
                   ELSE body.links = <<>>
                        /\ body.properties = [k \in {RelOf("openid")} |-> F]

\* a call answered from the wildcard document of a tenant whose fallback
\* identity is a URL
C1_Witness ==
    \E i \in Done :
        /\ AsksFallback(i)
        /\ Cardinality(Positions(requests[i].resource, "@")) = 1
        /\ Url_parse_is_ok(loaded[Selected(i)].openid.val)
        /\ requests[i].response.status = "ok"
        /\ requests[i].response.body.subject # wildcard(requests[i].domain)

\* C2: when the selected tenant has the resource as a key, the response is
\* exactly the stored document, also when the tenant is global and holds a
\* wildcard document.
C2_ExactMatchFirst ==
    \A i \in Done :
        (Selected(i) # "" /\ requests[i].resource \in DOMAIN tenants[Selected(i)].fingers) =>
            requests[i].response = Found(tenants[Selected(i)].fingers[requests[i].resource])

\* an exact match answered by a global tenant whose wildcard document would
\* have matched the resource too
C2_Witness ==
    \E i \in Done :
        /\ Selected(i) # ""
        /\ requests[i].resource \in DOMAIN tenants[Selected(i)].fingers
        /\ requests[i].resource # wildcard(requests[i].domain)
        /\ global_match(tenants[Selected(i)], requests[i].resource, requests[i].domain)
        /\ requests[i].response.status = "ok"

\* C3 as stated: a global tenant with domain D answers NotFound for a resource
\* it does not define unless the resource is acct:<local>@<domain> and the
\* text after the '@' equals D.
C3_NotFoundUnlessDomain ==
    \A i \in Done :
        LET res == requests[i].resource
            ats == Positions(res, "@")
        IN  ( /\ Selected(i) # ""
              /\ tenants[Selected(i)].global
              /\ res \notin DOMAIN tenants[Selected(i)].fingers
              /\ ~( /\ starts_with(res, Acct)
                    /\ ats # {}
                    /\ Skip(res, Min(ats)) = requests[i].domain ) )
            => requests[i].response = NotFound

\* C8, the responses: each response is the one the handler gives when run
\* alone on the call's resource and domain.
C8_ResponseAlone ==
    \A i \in Done :
        requests[i].response =
            webfinger_handler(tenants, tenant_iter,
                              requests[i].resource, requests[i].domain).response

\* C8: however the handler calls interleave, no step changes the tenant map or
\* its iteration order, and each response is the one the handler gives when
\* run alone on the call's resource and domain.
C8_Independent ==
    [](C8_ResponseAlone) /\ [][tenants' = tenants /\ tenant_iter' = tenant_iter]_vars

\* two calls with their responses at the same time, one answered from the
\* wildcard document and one NotFound
C8_Witness ==
    \E i, j \in Done :
        /\ i # j
        /\ requests[i].response.status = "ok"
        /\ requests[i].resource \notin DOMAIN tenants[Selected(i)].fingers
        /\ requests[j].response = NotFound

---------------------------------------------------------------------------
(* Properties of startup and of the compiled tenant map (Spec)             *)

\* the files of config/ that load_tenants reads
YmlEntries == {n \in DOMAIN config_dir.entries : config_dir.entries[n].ext \in {"yml", "yaml"}}

\* C4 as stated: no request is served and no listener bound when urns.yml or a
\* tenant file is malformed or unreadable, or a user identifier of a loaded
\* tenant fails normalization.
C4_AllOrNothing ==
    ( \/ urns_yml.kind \in {"malformed", "unreadable"}
      \/ \E n \in YmlEntries : config_dir.entries[n].kind \in {"malformed", "unreadable"}
      \/ \E n \in DOMAIN loaded : \E u \in DOMAIN loaded[n].users : ~normalize_subject(u).ok )
    => (pc # "serving" /\ \A i \in 1..MaxInFlight : requests[i].pc = "idle")

\* C5 as stated: every key of every compiled tenant's mapping is accepted by
\* subject normalization and returned unchanged.
C5_KeysNormalized ==
    pc \in {"compiled", "serving"} =>
        \A n \in DOMAIN tenants : \A k \in DOMAIN tenants[n].fingers :
            normalize_subject(k) = Ok(k)

\* C6 as stated: a compiled tenant holds the key acct:*@<domain> only if it is
\* global and a fallback identity was supplied.
C6_WildcardReserved ==
    pc \in {"compiled", "serving"} =>
        \A n \in DOMAIN tenants :
            wildcard(tenants[n].domain) \in DOMAIN tenants[n].fingers
                => (tenants[n].global /\ loaded[n].openid.some)

\* C10 as stated: with the tenant definitions and the alias table fixed, the
\* response to every request is the same whatever the iteration order of the
\* tenant map, also when two tenants of different names declare one domain.
C10_Deterministic ==
    pc \in {"compiled", "serving"} =>
        \A titer \in Orders(DOMAIN tenants) :
            \A res \in Resources : \A host \in Hosts :
                webfinger_handler(tenants, titer, res, domain_of(host)).response
                  = webfinger_handler(tenants, tenant_iter, res, domain_of(host)).response

---------------------------------------------------------------------------
(* Properties of normalize_subject (SpecNormalize)                         *)

\* C7 as stated: when normalize_subject succeeds with s, normalize_subject(s)
\* succeeds and returns s.
C7_Idempotent == again # Pending => again = subject

---------------------------------------------------------------------------
(* Properties of create_webfinger (SpecFinger)                             *)

\* the relation an attribute key stands for under the alias table given
RelIn(key) == IF key \in DOMAIN aliases THEN aliases[key] ELSE key

UrlKeys == {k \in DOMAIN user_data : Url_parse_is_ok(user_data[k])}
TextKeys == (DOMAIN user_data) \ UrlKeys

\* C9: the document has one link {rel(k), v} for each attribute whose value is
\* a URL, links of one relation all kept; its property keys are exactly the
\* relations of the attributes whose value is no URL, each with the value of
\* one such attribute of that relation; links hold URLs only and properties
\* hold none.
C9_Classification ==
    finger # NoBody =>
        /\ Len(finger.links) = Cardinality(UrlKeys)
        /\ \A k \in UrlKeys :
              Cardinality({i \in 1..Len(finger.links) :
                              finger.links[i] = Link(RelIn(k), user_data[k])})
                = Cardinality({j \in UrlKeys :
                                  RelIn(j) = RelIn(k) /\ user_data[j] = user_data[k]})
        /\ DOMAIN finger.properties = {RelIn(k) : k \in TextKeys}
        /\ \A p \in DOMAIN finger.properties :
              \E k \in TextKeys : RelIn(k) = p /\ finger.properties[p] = user_data[k]
        /\ \A i \in 1..Len(finger.links) : Url_parse_is_ok(finger.links[i].href)
        /\ \A p \in DOMAIN finger.properties : ~Url_parse_is_ok(finger.properties[p])

\* a document with two links of one relation, made from two aliased
\* attributes, and a property
C9_Witness ==
    /\ finger # NoBody
    /\ \E i, j \in 1..Len(finger.links) :
          i # j /\ finger.links[i].rel = finger.links[j].rel
    /\ Cardinality(DOMAIN finger.properties) = 1
    /\ Cardinality(DOMAIN user_data) = 3

===========================================================================
